---- MODULE Spec2Model ----
(***************************************************************************)
(* Model of app.py: the statement counter, the five-table schema, the seed *)
(* routine populate_db, the query builder get_query and the three          *)
(* demonstration scenarios (simple_query, joinedload_query, eager_query).  *)
(*                                                                         *)
(* Strings are sequences of one-character strings, so that formatting      *)
(* (f"test{i}") and pattern matching (ILIKE 'test%') are computed.         *)
(* A row id of 0 stands for NULL / None (autoincrement ids start at 1).    *)
(***************************************************************************)
EXTENDS Integers, Sequences, FiniteSets, TLC

(* ------------------------------ bounds --------------------------------- *)

\* Largest n passed to populate_db in the modelled runs.
MaxN == 11

\* Largest number of statement-counter operations in SpecCounter.
MaxOps == 7

\* Largest row id per table in the stores that SpecQuery draws.
MaxId == 2

\* Default argument of populate_db.
DefaultN == 10

(* ------------------------------ strings -------------------------------- *)

DigitChars == <<"0", "1", "2", "3", "4", "5", "6", "7", "8", "9">>

UpperChars == <<"A","B","C","D","E","F","G","H","I","J","K","L","M",
                "N","O","P","Q","R","S","T","U","V","W","X","Y","Z">>

LowerChars == <<"a","b","c","d","e","f","g","h","i","j","k","l","m",
                "n","o","p","q","r","s","t","u","v","w","x","y","z">>

\* str(i) as Python's f-string formats a non-negative int: decimal digits.
RECURSIVE str(_)
str(i) ==
    IF i < 10 THEN <<DigitChars[i + 1]>>
    ELSE str(i \div 10) \o <<DigitChars[(i % 10) + 1]>>

PersonNameOffByOne(i) == <<"t", "e", "s", "t">> \o str(i + 1)

\* f"test{i}"
PersonName(i) == <<"t", "e", "s", "t">> \o str(i)

\* f"company{i}"
CompanyName(i) == <<"c", "o", "m", "p", "a", "n", "y">> \o str(i)

\* "x{i}": a plain literal (no f prefix), so the braces are kept as written.
AccountStatus(i) == <<"x", "{", "i", "}">>

\* The lower-case letter of each upper-case letter.
LowerMap ==
    [c \in {UpperChars[k] : k \in 1..Len(UpperChars)} |->
        LowerChars[CHOOSE k \in 1..Len(UpperChars) : UpperChars[k] = c]]

lowerChar(c) == IF c \in DOMAIN LowerMap THEN LowerMap[c] ELSE c

lower(s) == [k \in 1..Len(s) |-> lowerChar(s[k])]

\* SQL LIKE: % matches any run of characters, _ any one character.
RECURSIVE like(_, _)
like(s, pat) ==
    IF pat = <<>> THEN s = <<>>
    ELSE IF Head(pat) = "%"
         THEN like(s, Tail(pat)) \/ (s # <<>> /\ like(Tail(s), pat))
    ELSE IF s = <<>> THEN FALSE
    ELSE (Head(pat) = "_" \/ Head(pat) = Head(s)) /\ like(Tail(s), Tail(pat))

\* column.ilike(pat): lower(column) LIKE lower(pat).
ilike(s, pat) == like(lower(s), lower(pat))

TestPattern == <<"t", "e", "s", "t", "%">>
StatusPattern == <<"x", "%">>
CompanyPattern == <<"c", "o", "m", "p", "a", "n", "y", "%">>

(* ------------------------------ schema --------------------------------- *)

Tables == {"person", "user", "company", "account", "user_account"}

EmptyStore == [t \in Tables |-> {}]

Person(id, name) == [id |-> id, name |-> name]
User(id, person_id) == [id |-> id, person_id |-> person_id]
Company(id, name) == [id |-> id, name |-> name]
Account(id, status, company_id) ==
    [id |-> id, status |-> status, company_id |-> company_id]
\* rowid: the store's own row number (the table's key is the composite pair).
UserAccount(rowid, account_id, user_id) ==
    [rowid |-> rowid, account_id |-> account_id, user_id |-> user_id]

NoUserAccount == UserAccount(0, 0, 0)

Max(S) == IF S = {} THEN 0 ELSE CHOOSE x \in S : \A y \in S : y <= x

\* INTEGER PRIMARY KEY autoincrement: one more than the largest id in use.
NextId(rows) == Max({r.id : r \in rows}) + 1

\* The rows a connection sees inside its transaction.
Visible(st, tx) == [t \in Tables |-> st[t] \cup tx[t]]

(* ------------------------- DBStatementCounter -------------------------- *)

__init__ == [count |-> 0, do_count |-> FALSE]

__enter__(c) == [c EXCEPT !.do_count = TRUE]

__exit__(c) == [c EXCEPT !.do_count = FALSE]

get_count(c) == c.count

callbackAlways(c) == [c EXCEPT !.count = @ + 1]

callback(c) == IF c.do_count THEN [c EXCEPT !.count = @ + 1] ELSE c

(* ----------------------------- session --------------------------------- *)

\* session.add(row); session.commit() in place of session.flush().
flushCommits(st, tx, t, row) ==
    [store |-> [Visible(st, tx) EXCEPT ![t] = @ \cup {row}], txn |-> EmptyStore]

\* session.add(row); session.flush(): INSERT inside the open transaction.
flush(st, tx, t, row) == [store |-> st, txn |-> [tx EXCEPT ![t] = @ \cup {row}]]

\* session.commit(): the transaction's rows become durable.
commit(st, tx) == Visible(st, tx)

SessionLeak(open, s) == open

\* Session.__exit__: close the session.
SessionClose(open, s) == open \ {s}

(* ------------------------- populate_db rows ---------------------------- *)

\* Person(name=f"test{i}")
NewPerson(v, i) == Person(NextId(v.person), PersonName(i))

NewUserDangling(v, person) == User(NextId(v.user), person + 1)

\* User(person=person): person_id is the flushed person's id.
NewUser(v, person) == User(NextId(v.user), person)

\* Company(name=f"company{i}")
NewCompany(v, i) == Company(NextId(v.company), CompanyName(i))

\* Account(status="x{i}", company=company)
NewAccount(v, i, company) == Account(NextId(v.account), AccountStatus(i), company)

\* UserAccount(user=user, account=account)
NewUserAccount(v, user, account) ==
    UserAccount(Max({r.rowid : r \in v.user_account}) + 1, account, user)

(* ------------------------------ query ---------------------------------- *)

\* The rows of person JOIN user JOIN user_account JOIN account JOIN company.
JoinRows(v) ==
    UNION { UNION { UNION { UNION {
        { [p |-> p, u |-> u, ua |-> ua, a |-> a, c |-> c] :
            c \in {c \in v.company : c.id = a.company_id} } :
            a \in {a \in v.account : a.id = ua.account_id} } :
            ua \in {ua \in v.user_account : ua.user_id = u.id} } :
            u \in {u \in v.user : u.person_id = p.id} } :
            p \in v.person }

get_queryNoStatus(v, options) ==
    { r \in JoinRows(v) :
        /\ ilike(r.p.name, TestPattern)
        /\ ilike(r.c.name, CompanyPattern) }

\* The result rows of the query get_query builds; options only direct loading.
get_query(v, options) ==
    { r \in JoinRows(v) :
        /\ ilike(r.p.name, TestPattern)
        /\ ilike(r.a.status, StatusPattern)
        /\ ilike(r.c.name, CompanyPattern) }

(* ---------------------------- scenarios -------------------------------- *)

Scenarios == <<"simple", "joinedload", "eager">>

RelationPath == << <<"user">>,
                   <<"user", "my_accounts">>,
                   <<"user", "my_accounts", "account">>,
                   <<"user", "my_accounts", "account", "company">> >>

OptionsOf(strategy, k) ==
    [j \in 1..k |-> [strategy |-> strategy, path |-> RelationPath[j]]]

ScenarioOptionsSwapped(s) ==
    IF s = "simple" THEN OptionsOf("joinedload", Len(RelationPath))
    ELSE <<>>

ScenarioOptionsShort(s) ==
    IF s = "joinedload" THEN OptionsOf("joinedload", Len(RelationPath) - 1)
    ELSE IF s = "eager" THEN OptionsOf("contains_eager", Len(RelationPath))
    ELSE <<>>

\* The options each scenario passes to get_query.
ScenarioOptions(s) ==
    IF s = "joinedload" THEN OptionsOf("joinedload", Len(RelationPath))
    ELSE IF s = "eager" THEN OptionsOf("contains_eager", Len(RelationPath))
    ELSE <<>>

\* How a relationship path is loaded under the options: lazy unless directed.
StrategyFor(options, path) ==
    IF \E k \in 1..Len(options) : options[k].path = path
    THEN options[CHOOSE k \in 1..Len(options) : options[k].path = path].strategy
    ELSE "lazy"

Has(attr, owner) == \E e \in attr : e[1] = owner
Get(attr, owner) == (CHOOSE e \in attr : e[1] = owner)[2]

\* The users a person's uselist=False relationship may resolve to.
UsersOf(v, p) ==
    IF \E u \in v.user : u.person_id = p
    THEN {u.id : u \in {u \in v.user : u.person_id = p}}
    ELSE {0}

AccountsOf(v, u) == {ua \in v.user_account : ua.user_id = u}

\* Many-to-one target by primary key: the row's id, or None.
RowOrNone(rows, id) == IF \E r \in rows : r.id = id THEN id ELSE 0

CompanyIdOf(v, a) == (CHOOSE r \in v.account : r.id = a).company_id

NoAttrs == [user |-> {}, my_accounts |-> {}, account |-> {}, company |-> {}]

\* The relationships populated by the statement of result.first() itself:
\* contains_eager takes them from the selected row r, joinedload from its own
\* LEFT OUTER JOINs (u2 is the user it keeps for person.user), lazy none.
EagerLoad(options, v, r, u2) ==
    LET sU == StrategyFor(options, RelationPath[1])
        sM == StrategyFor(options, RelationPath[2])
        sA == StrategyFor(options, RelationPath[3])
        sC == StrategyFor(options, RelationPath[4])
        user == IF sU = "contains_eager" THEN {<<r.p.id, r.u.id>>}
                ELSE IF sU = "joinedload" THEN {<<r.p.id, u2>>}
                ELSE {}
        us == {e[2] : e \in user} \ {0}
        my_accounts ==
            IF sM = "contains_eager"
            THEN {<<u, IF u = r.u.id THEN {r.ua} ELSE {}>> : u \in us}
            ELSE IF sM = "joinedload" THEN {<<u, AccountsOf(v, u)>> : u \in us}
            ELSE {}
        uas == UNION {e[2] : e \in my_accounts}
        account ==
            IF sA = "contains_eager" THEN {<<ua, r.a.id>> : ua \in uas}
            ELSE IF sA = "joinedload"
                 THEN {<<ua, RowOrNone(v.account, ua.account_id)>> : ua \in uas}
            ELSE {}
        as == {e[2] : e \in account} \ {0}
        company ==
            IF sC = "contains_eager" THEN {<<a, r.c.id>> : a \in as}
            ELSE IF sC = "joinedload"
                 THEN {<<a, RowOrNone(v.company, CompanyIdOf(v, a))>> : a \in as}
            ELSE {}
    IN  [user |-> user, my_accounts |-> my_accounts,
         account |-> account, company |-> company]

\* The entities a session holds after loading a person with these attributes.
IdentityOf(p, at) ==
    {<<"person", p>>}
    \cup {<<"user", e[2]>> : e \in {e \in at.user : e[2] # 0}}
    \cup {<<"account", e[2]>> : e \in {e \in at.account : e[2] # 0}}
    \cup {<<"company", e[2]>> : e \in {e \in at.company : e[2] # 0}}

TruthyAlways(person) == TRUE

\* if person:
Truthy(person) == person # 0

(* ------------------------------ state ---------------------------------- *)

VARIABLES
    pc,         \* position in the script
    n,          \* populate_db's argument
    i,          \* populate_db's loop index
    loc,        \* populate_db's locals: ids of person, user, company, account
    store,      \* committed rows of each table
    txn,        \* rows inserted by the open transaction, not yet committed
    sessions,   \* ids of the sessions that are open
    sid,        \* id of the session of the running with-block
    nextSid,    \* number of sessions opened so far
    identity,   \* the session's identity map: <<table, id>> of loaded entities
    ctr,        \* the DBStatementCounter: [count, do_count]
    log,        \* history of the counter's operations: "enter", "exit", "exec"
    scen,       \* index in Scenarios of the running scenario
    rows,       \* the result rows of the scenario's query
    attrs,      \* relationship attributes already loaded in the session
    cur,        \* the objects reached so far by the dereference chain
    reported,   \* the count each scenario printed, -1 before it prints
    err         \* the uncaught error that ended the script, "none" otherwise

vars == <<pc, n, i, loc, store, txn, sessions, sid, nextSid, identity, ctr, log,
          scen, rows, attrs, cur, reported, err>>

NoLoc == [person |-> 0, user |-> 0, company |-> 0, account |-> 0]

\* depth: how many links of person.user.my_accounts[0].account.company.name
\* have been dereferenced.
NoCur == [person |-> 0, user |-> 0, my_accounts |-> {}, ua |-> NoUserAccount,
          account |-> 0, company |-> 0, name |-> <<>>, depth |-> 0]

NotReported == [s \in {Scenarios[k] : k \in 1..Len(Scenarios)} |-> -1]

InitCommon ==
    /\ i = 0
    /\ loc = NoLoc
    /\ txn = EmptyStore
    /\ sessions = {}
    /\ sid = 0
    /\ nextSid = 0
    /\ identity = {}
    /\ ctr = __init__
    /\ log = <<>>
    /\ scen = 1
    /\ rows = {}
    /\ attrs = NoAttrs
    /\ cur = NoCur
    /\ reported = NotReported
    /\ err = "none"

\* The script after drop_all/create_all: an empty store, populate_db(n) next.
Init ==
    /\ pc = "p_open"
    /\ n \in 0..MaxN
    /\ store = EmptyStore
    /\ InitCommon

V == Visible(store, txn)

(* ---------------------------- populate_db ------------------------------ *)

\* with Session() as session:
PopulateOpen ==
    /\ pc = "p_open"
    /\ sessions' = sessions \cup {nextSid + 1}
    /\ sid' = nextSid + 1
    /\ nextSid' = nextSid + 1
    /\ identity' = {}
    /\ i' = 0
    /\ pc' = IF 0 < n THEN "p_person" ELSE "p_close"
    /\ UNCHANGED <<n, loc, store, txn, ctr, log, scen, rows, attrs, cur, reported, err>>

Insert(t, row, next) ==
    LET f == flush(store, txn, t, row) IN
    /\ store' = f.store
    /\ txn' = f.txn
    /\ pc' = next
    /\ UNCHANGED <<n, i, sessions, sid, nextSid, identity, ctr, log, scen, rows,
                   attrs, cur, reported, err>>

AddPerson ==
    /\ pc = "p_person"
    /\ LET row == NewPerson(V, i) IN
        /\ Insert("person", row, "p_user")
        /\ loc' = [loc EXCEPT !.person = row.id]

AddUser ==
    /\ pc = "p_user"
    /\ LET row == NewUser(V, loc.person) IN
        /\ Insert("user", row, "p_company")
        /\ loc' = [loc EXCEPT !.user = row.id]

AddCompany ==
    /\ pc = "p_company"
    /\ LET row == NewCompany(V, i) IN
        /\ Insert("company", row, "p_account")
        /\ loc' = [loc EXCEPT !.company = row.id]

AddAccount ==
    /\ pc = "p_account"
    /\ LET row == NewAccount(V, i, loc.company) IN
        /\ Insert("account", row, "p_user_account")
        /\ loc' = [loc EXCEPT !.account = row.id]

AddUserAccount ==
    /\ pc = "p_user_account"
    /\ Insert("user_account", NewUserAccount(V, loc.user, loc.account), "p_commit")
    /\ UNCHANGED loc

\* session.commit(), then the next iteration or the end of the with-block.
Commit ==
    /\ pc = "p_commit"
    /\ store' = commit(store, txn)
    /\ txn' = EmptyStore
    /\ i' = i + 1
    /\ pc' = IF i + 1 < n THEN "p_person" ELSE "p_close"
    /\ UNCHANGED <<n, loc, sessions, sid, nextSid, identity, ctr, log, scen, rows,
                   attrs, cur, reported, err>>

\* End of populate_db's with-block: the session is closed.
PopulateClose ==
    /\ pc = "p_close"
    /\ sessions' = SessionClose(sessions, sid)
    /\ txn' = EmptyStore
    /\ identity' = {}
    /\ pc' = "s_open"
    /\ UNCHANGED <<n, i, loc, store, sid, nextSid, ctr, log, scen, rows, attrs, cur,
                   reported, err>>

(* ----------------------------- unwinding ------------------------------- *)

SessionBlock == {"p_person", "p_user", "p_company", "p_account", "p_user_account",
                 "p_commit", "p_close", "s_ctr", "s_query", "s_first", "d_user",
                 "d_my_accounts", "d_index", "d_account", "d_company", "d_name",
                 "s_exit", "s_report", "s_close"}

CounterBlock == {"s_query", "s_first", "d_user", "d_my_accounts", "d_index",
                 "d_account", "d_company", "d_name", "s_exit"}

\* An error leaves the with-blocks it is raised in: the counter's __exit__ runs,
\* the session is closed (its open transaction rolled back), and the error,
\* caught nowhere, ends the script.
Unwind(kind) ==
    /\ err' = kind
    /\ pc' = "crashed"
    /\ ctr' = IF pc \in CounterBlock THEN __exit__(ctr) ELSE ctr
    /\ log' = IF pc \in CounterBlock THEN Append(log, "exit") ELSE log
    /\ sessions' = SessionClose(sessions, sid)
    /\ txn' = EmptyStore
    /\ identity' = {}
    /\ UNCHANGED <<n, i, loc, store, sid, nextSid, scen, rows, attrs, cur, reported>>

\* An error raised inside a with-block by the store layer or the interpreter.
Interrupt ==
    /\ pc \in SessionBlock
    /\ Unwind("interrupt")

(* ----------------------------- scenarios ------------------------------- *)

Scenario == Scenarios[scen]

\* with Session() as session:
ScenarioOpen ==
    /\ pc = "s_open"
    /\ sessions' = sessions \cup {nextSid + 1}
    /\ sid' = nextSid + 1
    /\ nextSid' = nextSid + 1
    /\ identity' = {}
    /\ attrs' = NoAttrs
    /\ cur' = NoCur
    /\ rows' = {}
    /\ pc' = "s_ctr"
    /\ UNCHANGED <<n, i, loc, store, txn, ctr, log, scen, reported, err>>

\* with DBStatementCounter(session.connection()) as ctr:
ScenarioCounter ==
    /\ pc = "s_ctr"
    /\ ctr' = __enter__(__init__)
    /\ log' = <<"enter">>
    /\ pc' = "s_query"
    /\ UNCHANGED <<n, i, loc, store, txn, sessions, sid, nextSid, identity, scen,
                   rows, attrs, cur, reported, err>>

\* result = get_query(session, options); print(result): no statement yet.
ScenarioQuery ==
    /\ pc = "s_query"
    /\ rows' = get_query(V, ScenarioOptions(Scenario))
    /\ pc' = "s_first"
    /\ UNCHANGED <<n, i, loc, store, txn, sessions, sid, nextSid, identity, ctr, log,
                   scen, attrs, cur, reported, err>>

\* One step inside the counter's block; executed: a statement ran on the connection.
Step(next, newCur, newAttrs, newIdentity, executed) ==
    /\ pc' = next
    /\ cur' = newCur
    /\ attrs' = newAttrs
    /\ identity' = newIdentity
    /\ ctr' = IF executed THEN callback(ctr) ELSE ctr
    /\ log' = IF executed THEN Append(log, "exec") ELSE log
    /\ UNCHANGED <<n, i, loc, store, txn, sessions, sid, nextSid, scen, rows,
                   reported, err>>

\* person = result.first(): the select runs with LIMIT 1 (no ORDER BY, so any
\* result row may come first); if person: guards the dereference.
ScenarioFirst ==
    /\ pc = "s_first"
    /\ IF rows = {}
       THEN Step(IF Truthy(0) THEN "d_user" ELSE "s_exit", NoCur, NoAttrs, {}, TRUE)
       ELSE \E r \in rows : \E u2 \in UsersOf(V, r.p.id) :
              LET at == EagerLoad(ScenarioOptions(Scenario), V, r, u2) IN
              Step(IF Truthy(r.p.id) THEN "d_user" ELSE "s_exit",
                   [NoCur EXCEPT !.person = r.p.id], at, IdentityOf(r.p.id, at), TRUE)

\* person.user
DerefUser ==
    /\ pc = "d_user"
    /\ IF cur.person = 0 THEN Unwind("AttributeError")
       ELSE IF Has(attrs.user, cur.person)
       THEN Step("d_my_accounts", [cur EXCEPT !.depth = 1, !.user = Get(attrs.user, cur.person)],
                 attrs, identity, FALSE)
       ELSE \E u \in UsersOf(V, cur.person) :
              Step("d_my_accounts", [cur EXCEPT !.depth = 1, !.user = u],
                   [attrs EXCEPT !.user = @ \cup {<<cur.person, u>>}],
                   identity \cup (IF u = 0 THEN {} ELSE {<<"user", u>>}), TRUE)

\* .my_accounts
DerefMyAccounts ==
    /\ pc = "d_my_accounts"
    /\ IF cur.user = 0 THEN Unwind("AttributeError")
       ELSE IF Has(attrs.my_accounts, cur.user)
       THEN Step("d_index",
                 [cur EXCEPT !.depth = 2, !.my_accounts = Get(attrs.my_accounts, cur.user)],
                 attrs, identity, FALSE)
       ELSE LET l == AccountsOf(V, cur.user) IN
            Step("d_index", [cur EXCEPT !.depth = 2, !.my_accounts = l],
                 [attrs EXCEPT !.my_accounts = @ \cup {<<cur.user, l>>}],
                 identity, TRUE)

\* [0]: the list's order is the store's, so any element may be first.
DerefIndex ==
    /\ pc = "d_index"
    /\ IF cur.my_accounts = {} THEN Unwind("IndexError")
       ELSE \E ua \in cur.my_accounts :
              Step("d_account", [cur EXCEPT !.depth = 3, !.ua = ua], attrs, identity, FALSE)

\* .account: many-to-one, looked up in the identity map before the store.
DerefAccount ==
    /\ pc = "d_account"
    /\ IF Has(attrs.account, cur.ua)
       THEN Step("d_company", [cur EXCEPT !.depth = 4, !.account = Get(attrs.account, cur.ua)],
                 attrs, identity, FALSE)
       ELSE LET a == RowOrNone(V.account, cur.ua.account_id) IN
            Step("d_company", [cur EXCEPT !.depth = 4, !.account = a],
                 [attrs EXCEPT !.account = @ \cup {<<cur.ua, a>>}],
                 identity \cup (IF a = 0 THEN {} ELSE {<<"account", a>>}),
                 <<"account", cur.ua.account_id>> \notin identity)

\* .company: many-to-one; a NULL company_id gives None without a statement.
DerefCompany ==
    /\ pc = "d_company"
    /\ IF cur.account = 0 THEN Unwind("AttributeError")
       ELSE IF Has(attrs.company, cur.account)
       THEN Step("d_name", [cur EXCEPT !.depth = 5, !.company = Get(attrs.company, cur.account)],
                 attrs, identity, FALSE)
       ELSE LET fk == CompanyIdOf(V, cur.account)
                c == RowOrNone(V.company, fk)
            IN  Step("d_name", [cur EXCEPT !.depth = 5, !.company = c],
                     [attrs EXCEPT !.company = @ \cup {<<cur.account, c>>}],
                     identity \cup (IF c = 0 THEN {} ELSE {<<"company", c>>}),
                     fk # 0 /\ <<"company", fk>> \notin identity)

\* .name: a column of the loaded company.
DerefName ==
    /\ pc = "d_name"
    /\ IF cur.company = 0 THEN Unwind("AttributeError")
       ELSE Step("s_exit",
                 [cur EXCEPT !.depth = 6, !.name = (CHOOSE c \in V.company : c.id = cur.company).name],
                 attrs, identity, FALSE)

\* End of the counter's with-block.
ScenarioExit ==
    /\ pc = "s_exit"
    /\ ctr' = __exit__(ctr)
    /\ log' = Append(log, "exit")
    /\ pc' = "s_report"
    /\ UNCHANGED <<n, i, loc, store, txn, sessions, sid, nextSid, identity, scen,
                   rows, attrs, cur, reported, err>>

\* print(ctr.count)
ScenarioReport ==
    /\ pc = "s_report"
    /\ reported' = [reported EXCEPT ![Scenario] = get_count(ctr)]
    /\ pc' = "s_close"
    /\ UNCHANGED <<n, i, loc, store, txn, sessions, sid, nextSid, identity, ctr, log,
                   scen, rows, attrs, cur, err>>

\* End of the session's with-block; the script goes on to the next scenario.
ScenarioClose ==
    /\ pc = "s_close"
    /\ sessions' = SessionClose(sessions, sid)
    /\ txn' = EmptyStore
    /\ identity' = {}
    /\ scen' = IF scen < Len(Scenarios) THEN scen + 1 ELSE scen
    /\ pc' = IF scen < Len(Scenarios) THEN "s_open" ELSE "done"
    /\ UNCHANGED <<n, i, loc, store, sid, nextSid, ctr, log, rows, attrs, cur,
                   reported, err>>

ScenarioNext ==
    \/ ScenarioOpen
    \/ ScenarioCounter
    \/ ScenarioQuery
    \/ ScenarioFirst
    \/ DerefUser
    \/ DerefMyAccounts
    \/ DerefIndex
    \/ DerefAccount
    \/ DerefCompany
    \/ DerefName
    \/ ScenarioExit
    \/ ScenarioReport
    \/ ScenarioClose

Next ==
    \/ PopulateOpen
    \/ AddPerson
    \/ AddUser
    \/ AddCompany
    \/ AddAccount
    \/ AddUserAccount
    \/ Commit
    \/ PopulateClose
    \/ Interrupt
    \/ ScenarioNext

\* The whole script: populate_db(n), then the three scenarios.
Spec == Init /\ [][Next]_vars

(* ------------------- the counter under any use ------------------------- *)

InitCounter ==
    /\ pc = "counter"
    /\ n = 0
    /\ store = EmptyStore
    /\ InitCommon

CounterOp(c, event) ==
    /\ pc = "counter"
    /\ Len(log) < MaxOps
    /\ ctr' = c
    /\ log' = Append(log, event)
    /\ UNCHANGED <<pc, n, i, loc, store, txn, sessions, sid, nextSid, identity, scen,
                   rows, attrs, cur, reported, err>>

CounterEnter == CounterOp(__enter__(ctr), "enter")

CounterExit == CounterOp(__exit__(ctr), "exit")

\* A statement completes on the wrapped connection: after_execute fires.
CounterExecute == CounterOp(callback(ctr), "exec")

NextCounter == CounterEnter \/ CounterExit \/ CounterExecute

\* A DBStatementCounter after construction, under any sequence of uses.
SpecCounter == InitCounter /\ [][NextCounter]_vars

(* ------------------ the scenarios over arbitrary stores ---------------- *)

Ids == 1..MaxId

PNames == {PersonName(0), <<"T", "E", "S", "T">>, <<"a", "t", "e", "s", "t">>}
SNames == {AccountStatus(0), <<"X">>, <<"a", "x">>}
CNames == {CompanyName(0), <<"C", "o", "m", "p", "a", "n", "Y">>,
           <<"C", "o", "m", "p", "a", "n">>}

\* The names of one chain: all three as seeded, all three in another letter
\* case, or one of the three without its prefix.
NameTriples ==
    { t \in PNames \X SNames \X CNames :
        \/ t = <<PersonName(0), AccountStatus(0), CompanyName(0)>>
        \/ t = <<<<"T", "E", "S", "T">>, <<"X">>, <<"C", "o", "m", "p", "a", "n", "Y">>>>
        \/ t = <<<<"a", "t", "e", "s", "t">>, AccountStatus(0), CompanyName(0)>>
        \/ t = <<PersonName(0), <<"a", "x">>, CompanyName(0)>>
        \/ t = <<PersonName(0), AccountStatus(0), <<"C", "o", "m", "p", "a", "n">>>> }

\* Complete chains, as populate_db links them, each under a choice of names.
NameStores ==
    { [person |-> {Person(k, nm[k][1]) : k \in Ids},
       user |-> {User(k, k) : k \in Ids},
       company |-> {Company(k, nm[k][3]) : k \in Ids},
       account |-> {Account(k, nm[k][2], k) : k \in Ids},
       user_account |-> {UserAccount(k, k, k) : k \in Ids}] :
      nm \in [Ids -> NameTriples] }

\* Seeded names under varied links: at most one user belongs to person 1
\* instead of its own person, at most one account has no company, and at most
\* MaxId links join users to accounts, possibly to an account id that has no row.
LinkStores ==
    { [person |-> {Person(k, PersonName(k)) : k \in Ids},
       user |-> {User(k, IF k = up THEN 1 ELSE k) : k \in Ids},
       company |-> {Company(k, CompanyName(k)) : k \in Ids},
       account |-> {Account(k, AccountStatus(k), IF k = ac THEN 0 ELSE k) : k \in Ids},
       user_account |->
           {UserAccount((l[1] - 1) * (MaxId + 1) + l[2], l[2], l[1]) : l \in ls}] :
      up \in Ids,
      ac \in 0..MaxId,
      ls \in {x \in SUBSET (Ids \X (1..(MaxId + 1))) : Cardinality(x) <= MaxId} }

InitQuery ==
    /\ pc = "s_open"
    /\ n = 0
    /\ store \in NameStores \cup LinkStores
    /\ InitCommon

\* The three scenarios run over a store drawn from NameStores or LinkStores.
SpecQuery == InitQuery /\ [][ScenarioNext]_vars

(* ------------------------------ claims --------------------------------- *)

ScenarioNames == {Scenarios[k] : k \in 1..Len(Scenarios)}

PopulatePcs == {"p_open", "p_person", "p_user", "p_company", "p_account",
                "p_user_account", "p_commit", "p_close"}

DerefPcs == {"d_user", "d_my_accounts", "d_index", "d_account", "d_company", "d_name"}

\* populate_db is running, or the script ended inside it.
InPopulate == pc \in PopulatePcs \/ (pc = "crashed" /\ nextSid = 1)

\* The statements a history counts: each "exec" between an "enter" and the
\* next "exit", none outside.
RECURSIVE InScope(_, _)
InScope(l, active) ==
    IF l = <<>> THEN 0
    ELSE IF Head(l) = "enter" THEN InScope(Tail(l), TRUE)
    ELSE IF Head(l) = "exit" THEN InScope(Tail(l), FALSE)
    ELSE (IF active THEN 1 ELSE 0) + InScope(Tail(l), active)

\* C1: after any sequence of __enter__, __exit__ and statement executions,
\* get_count() is the number of statements that completed while the scope was
\* active; statements outside the scope leave it unchanged.
C1_CountIsInScope == get_count(ctr) = InScope(log, FALSE)

C1_Witness ==
    /\ log = <<"exec", "enter", "exec", "exit", "exec", "enter", "exec">>
    /\ get_count(ctr) = 2

\* C2: for every n, the count the simple scenario reports is at least the
\* count the joined-load scenario reports and the one the contains-eager
\* scenario reports.
C2_SimpleAtLeastEager ==
    /\ (reported["simple"] # -1 /\ reported["joinedload"] # -1)
          => reported["simple"] >= reported["joinedload"]
    /\ (reported["simple"] # -1 /\ reported["eager"] # -1)
          => reported["simple"] >= reported["eager"]

C2_Witness ==
    /\ pc = "done"
    /\ n = DefaultN
    /\ reported["simple"] = 5
    /\ reported["joinedload"] = 1
    /\ reported["eager"] = 1

\* C3: in the joined-load and contains-eager scenarios the first result and
\* the whole dereference path cost exactly one counted statement: the count is
\* 1 from result.first() on, through every dereference, to the report.
C3_OneRoundTrip ==
    /\ (Scenario \in {"joinedload", "eager"}
            /\ pc \in DerefPcs \cup {"s_exit", "s_report", "s_close"})
          => get_count(ctr) = 1
    /\ reported["joinedload"] \in {-1, 1}
    /\ reported["eager"] \in {-1, 1}

C3_Witness ==
    /\ pc = "s_report"
    /\ Scenario = "joinedload"
    /\ cur.depth = 6
    /\ cur.name = CompanyName(cur.company - 1)
    /\ get_count(ctr) = 1
    /\ reported["simple"] = 5

\* Decimal digits of k < 100, written out.
Decimal(k) ==
    IF k < 10 THEN <<DigitChars[k + 1]>>
    ELSE <<DigitChars[(k \div 10) + 1], DigitChars[(k % 10) + 1]>>

\* C4: after populate_db(n) on an empty store every table holds exactly n
\* rows, and for each k in [0,n) the k-th rows form one chain: Person test{k},
\* referenced by the k-th User, linked by the k-th UserAccount to the k-th
\* Account, which references Company company{k}.
C4_SeededChains ==
    (~InPopulate) =>
        /\ \A t \in Tables : Cardinality(store[t]) = n
        /\ \A k \in 0..(n - 1) :
             /\ \E p \in store.person :
                  p.id = k + 1 /\ p.name = <<"t", "e", "s", "t">> \o Decimal(k)
             /\ \E u \in store.user : u.id = k + 1 /\ u.person_id = k + 1
             /\ \E c \in store.company :
                  c.id = k + 1
                  /\ c.name = <<"c", "o", "m", "p", "a", "n", "y">> \o Decimal(k)
             /\ \E a \in store.account : a.id = k + 1 /\ a.company_id = k + 1
             /\ \E ua \in store.user_account :
                  ua.rowid = k + 1 /\ ua.user_id = k + 1 /\ ua.account_id = k + 1

C4_Witness ==
    /\ pc = "s_open"
    /\ n = DefaultN
    /\ Cardinality(store.user_account) = DefaultN

\* s starts with prefix, letter case ignored.
HasPrefixCI(s, prefix) ==
    /\ Len(s) >= Len(prefix)
    /\ \A k \in 1..Len(prefix) : lowerChar(s[k]) = lowerChar(prefix[k])

\* C5: the query returns a Person only through a User, UserAccount, Account
\* and Company joined to it whose Person.name starts with 'test', Account.status
\* with 'x' and Company.name with 'company', case ignored; a row whose name or
\* status does not match is in no result, under every scenario's options.
C5_FilteredJoin ==
    /\ \A r \in rows :
         /\ r.p \in store.person /\ r.u \in store.user
         /\ r.ua \in store.user_account
         /\ r.a \in store.account /\ r.c \in store.company
         /\ r.u.person_id = r.p.id /\ r.ua.user_id = r.u.id
         /\ r.ua.account_id = r.a.id /\ r.a.company_id = r.c.id
         /\ HasPrefixCI(r.p.name, <<"t", "e", "s", "t">>)
         /\ HasPrefixCI(r.a.status, <<"x">>)
         /\ HasPrefixCI(r.c.name, <<"c", "o", "m", "p", "a", "n", "y">>)
    /\ \A p \in store.person :
         ~HasPrefixCI(p.name, <<"t", "e", "s", "t">>) => \A r \in rows : r.p # p
    /\ \A a \in store.account :
         ~HasPrefixCI(a.status, <<"x">>) => \A r \in rows : r.a # a
    /\ \A c \in store.company :
         ~HasPrefixCI(c.name, <<"c", "o", "m", "p", "a", "n", "y">>)
            => \A r \in rows : r.c # c

C5_Witness ==
    /\ pc = "s_first"
    /\ Scenario = "eager"
    /\ \E r \in rows : r.p.name = <<"T", "E", "S", "T">> /\ r.a.status = <<"X">>
    /\ \E p \in store.person :
         /\ p.name = PersonName(0)
         /\ \A r \in rows : r.p # p
         /\ \E a \in store.account : a.id = p.id /\ a.status = <<"a", "x">>

\* C6: with n = 0 every scenario gets no first result, dereferences nothing,
\* and reports a count of the initial select alone.
C6_EmptyStore ==
    (n = 0) =>
        /\ rows = {}
        /\ cur = NoCur
        /\ pc \notin DerefPcs
        /\ err \in {"none", "interrupt"}
        /\ \A s \in ScenarioNames : reported[s] \in {-1, 1}
        /\ (pc \in {"s_exit", "s_report", "s_close"}) => get_count(ctr) = 1

C6_Witness ==
    /\ n = 0
    /\ pc = "done"
    /\ \A s \in ScenarioNames : reported[s] = 1

\* C7: in every state of the store during and after seeding, rows inserted by
\* the open transaction included, every foreign key references an existing row
\* and no two UserAccount rows share (account_id, user_id).
C7_ReferentialIntegrity ==
    /\ \A u \in V.user : \E p \in V.person : p.id = u.person_id
    /\ \A a \in V.account : \E c \in V.company : c.id = a.company_id
    /\ \A ua \in V.user_account :
         /\ \E a \in V.account : a.id = ua.account_id
         /\ \E u \in V.user : u.id = ua.user_id
    /\ \A x \in V.user_account : \A y \in V.user_account :
         (x.account_id = y.account_id /\ x.user_id = y.user_id) => x = y

C7_Witness ==
    /\ pc = "p_commit"
    /\ i = 2
    /\ Cardinality(store.user_account) = 2
    /\ Cardinality(txn.user_account) = 1

\* The dereference chain of the first result has met a missing linkage.
MissingLinkage ==
    /\ cur.person # 0
    /\ \/ cur.depth >= 1 /\ cur.user = 0
       \/ cur.depth >= 2 /\ cur.my_accounts = {}
       \/ cur.depth >= 4 /\ cur.account = 0
       \/ cur.depth >= 5 /\ cur.company = 0

\* C8 as stated: a missing linkage on the first result's dereference path
\* raises no error, and the scenario goes on to report its count.
C8_SilentShortCircuit == MissingLinkage => (err = "none" /\ pc # "crashed")

\* C8 amended: only the absence of a first result is skipped silently. A
\* missing linkage on the first result's path (an empty my_accounts, no
\* Account, no Company; a first result always has a User) makes the unguarded
\* dereference raise: both with-blocks are left and the scenario reports no
\* count. The contains-eager scenario dereferences the selected row itself
\* and meets no missing linkage.
C8_MissingLinkageRaises ==
    /\ MissingLinkage =>
         /\ pc \in DerefPcs \cup {"crashed"}
         /\ reported[Scenario] = -1
         /\ Scenario # "eager"
         /\ cur.user # 0
    /\ (pc = "crashed") =>
         /\ MissingLinkage
         /\ err \in {"AttributeError", "IndexError"}
         /\ sessions = {}
         /\ ~ctr.do_count
    /\ (rows = {} /\ pc \notin {"s_open", "s_ctr", "s_query", "s_first"}) =>
         /\ cur = NoCur
         /\ pc \in {"s_exit", "s_report", "s_close", "done"}

C8_Witness ==
    /\ pc = "crashed"
    /\ err = "IndexError"
    /\ Scenario = "joinedload"
    /\ cur.user # 0
    /\ cur.my_accounts = {}
    /\ reported["simple"] = 5
    /\ reported["joinedload"] = -1

\* C9: at most one session is open at any time, and every session opened is
\* closed before the next is opened and before the script ends, also when the
\* body of its with-block raises.
C9_OneSessionClosed ==
    /\ Cardinality(sessions) <= 1
    /\ sessions \subseteq {sid}
    /\ (pc \in {"p_open", "s_open", "done", "crashed"}) => sessions = {}

C9_Witness ==
    /\ pc = "crashed"
    /\ err = "interrupt"
    /\ nextSid = 3
    /\ sessions = {}

\* k complete chains, as rows.
ChainStore(k) ==
    [person |-> {Person(j, <<"t", "e", "s", "t">> \o Decimal(j - 1)) : j \in 1..k},
     user |-> {User(j, j) : j \in 1..k},
     company |->
        {Company(j, <<"c", "o", "m", "p", "a", "n", "y">> \o Decimal(j - 1)) : j \in 1..k},
     account |-> {Account(j, <<"x", "{", "i", "}">>, j) : j \in 1..k},
     user_account |-> {UserAccount(j, j, j) : j \in 1..k}]

\* C10: populate_db commits once per chain, after its five rows are flushed:
\* the committed store is always k complete chains for some k <= n, and while
\* iteration i runs, or after it was interrupted, it is exactly the first i.
C10_WholeChainsCommitted ==
    /\ \E k \in 0..n : store = ChainStore(k)
    /\ InPopulate => store = ChainStore(i)
    /\ (pc = "p_commit") => \A t \in Tables : Cardinality(txn[t]) = 1

C10_Witness ==
    /\ pc = "crashed"
    /\ nextSid = 1
    /\ i = 2
    /\ loc.company = 3
    /\ store = ChainStore(2)
    /\ n > 3

====
